---- MODULE Spec2Model ----
(***************************************************************************)
(* when-changed: the event filtering and dispatch core of                  *)
(* src/whenchanged/whenchanged.py (class WhenChanged).                     *)
(*                                                                         *)
(* Strings are sequences of one-character strings, so that os.path.dirname,*)
(* the regular expressions of exclude_list and str.replace are computed on *)
(* characters as the code computes them.                                   *)
(***************************************************************************)
EXTENDS Integers, Sequences, FiniteSets, TLC

VARIABLES
    \* ---- configuration, fixed by __init__ ----
    paths,          \* self.paths: the registered canonical paths (keys of the dict)
    recursive,      \* self.recursive
    run_once,       \* self.run_once
    run_at_start,   \* self.run_at_start
    observer_class, \* self.observer.__class__.__name__
    command,        \* self.command: a sequence of tokens
    watches,        \* what __init__ scheduled on the observer: [path, recursive]
    \* ---- watcher state ----
    last_run,       \* self.last_run
    process_env,    \* self.process_env, its two WHEN_CHANGED_ entries
    \* ---- threads ----
    main_pc,        \* run(): "init", "run_at_start", "watching", "joining", "stopped", "crashed"
    ev_pc,          \* observer thread: "idle", "while", "body", "run_command", "dead", "exited"
    event,          \* the event whose handler is running, or NoEvent
    fi_path,        \* the local variable `path` of is_interested inside the while loop
    rc_pc,          \* run_command: "none", "exists", "getmtime", "getmtime_log", "wait"
    rc_owner,       \* the thread that is inside run_command: "none", "main", "event"
    thefile,        \* the argument of run_command
    error,          \* the exception that ended a thread, or "none"
    \* ---- environment ----
    now,            \* the wall clock
    fstat,          \* the file `thefile` on disk, as run_command finds it: Absent or its mtime
    child,          \* the child process of subprocess.call: its invocation, or NoChild
    completed,      \* when the latest child exited, NoTime before any has
    \* ---- a direct call of is_interested ----
    fi_pc,          \* "none", "start", "while", "body", "returned"
    fi_arg,         \* the argument of that call
    fi_ret          \* the value the call returned ("none" while it has not returned)

config == <<paths, recursive, run_once, run_at_start, observer_class, command, watches>>
threads == <<main_pc, ev_pc, event, fi_path, rc_pc, rc_owner, thefile, error>>
filter == <<fi_pc, fi_arg, fi_ret>>
vars == <<config, last_run, process_env, threads, now, fstat, child, completed, filter>>

(***************************************************************************)
(* Bounds of the model.                                                    *)
(***************************************************************************)
MaxDepth == 3      \* deepest path (number of components) given to is_interested
MaxTargets == 2    \* most paths registered at once
MaxTime == 2       \* last value of the wall clock

(***************************************************************************)
(* Characters and file names.                                              *)
(***************************************************************************)
Sep == "/"
Root == <<Sep>>

nA == <<"a">>
nB == <<"b">>
nGit == <<".", "g", "i", "t">>
nBackup == <<"a", "~">>
nSwap == <<".", "a", ".", "s", "w", "p">>
n4913 == <<"4", "9", "1", "3">>
nPycache == <<"_", "_", "p", "y", "c", "a", "c", "h", "e", "_", "_">>

Names == {nA, nB, nGit, nBackup, nSwap, n4913, nPycache}

\* The absolute path of `name` inside directory `dir`.
Child(dir, name) == IF dir = Root THEN dir \o name ELSE dir \o <<Sep>> \o name

RECURSIVE PathsOfDepth(_)
PathsOfDepth(n) ==
    IF n = 0 THEN {Root}
    ELSE {Child(d, nm) : d \in PathsOfDepth(n - 1), nm \in Names}

AllPaths == UNION {PathsOfDepth(n) : n \in 0..MaxDepth}

(***************************************************************************)
(* The directory tree, read off the path strings themselves (prefixes and  *)
(* components), not through dirname.                                       *)
(***************************************************************************)
\* F is an entry of directory D.
IsChildOf(F, D) == \E nm \in Names : F = Child(D, nm)

\* P lies below D, at any depth.
IsDescendantOf(P, D) ==
    /\ P # D
    /\ \/ D = Root /\ Len(P) > 1 /\ P[1] = Sep
       \/ /\ Len(P) > Len(D) + 1
          /\ SubSeq(P, 1, Len(D)) = D
          /\ P[Len(D) + 1] = Sep

SetMax(S) == CHOOSE x \in S : \A y \in S : y <= x

\* dirname that keeps the trailing separator of the head.
MutDirname(p) ==
    LET seps == {i \in 1..Len(p) : p[i] = Sep}
    IN  SubSeq(p, 1, IF seps = {} THEN 0 ELSE SetMax(seps))

(***************************************************************************)
(* os.path.dirname (posixpath): the head up to the last separator, with    *)
(* trailing separators stripped unless the head is nothing but separators. *)
(***************************************************************************)
dirname(p) ==
    LET seps == {i \in 1..Len(p) : p[i] = Sep}
        i == IF seps = {} THEN 0 ELSE SetMax(seps)
        head == SubSeq(p, 1, i)
        keep == {k \in 1..Len(head) : head[k] # Sep}
    IN  IF keep = {} THEN head ELSE SubSeq(head, 1, SetMax(keep))

(***************************************************************************)
(* exclude_list: re.compile(i).findall(path) is non-empty exactly when the *)
(* pattern matches somewhere in path (none of the patterns matches the     *)
(* empty string). The alphabet has no newline, so "." matches every        *)
(* character and "$" only the end of the string.                           *)
(***************************************************************************)
Contains(s, sub) ==
    \E i \in 1..(Len(s) - Len(sub) + 1) : SubSeq(s, i, i + Len(sub) - 1) = sub

EndsWith(s, sub) ==
    /\ Len(s) >= Len(sub)
    /\ SubSeq(s, Len(s) - Len(sub) + 1, Len(s)) = sub

\* r'\..*\.sw[px]*$'
MatchSwap(s) ==
    \E j \in 2..(Len(s) - 2) :
        /\ SubSeq(s, j, j + 2) = <<".", "s", "w">>
        /\ \A k \in (j + 3)..Len(s) : s[k] \in {"p", "x"}
        /\ \E i \in 1..(j - 1) : s[i] = "."

\* r'4913$'
Match4913(s) == EndsWith(s, <<"4", "9", "1", "3">>)

\* r'.~$'
MatchBackup(s) == Len(s) >= 2 /\ s[Len(s)] = "~"

\* r'\.git/?'
MatchGit(s) == Contains(s, <<".", "g", "i", "t">>)

\* r'__pycache__/?'
MatchPycache(s) == Contains(s, <<"_", "_", "p", "y", "c", "a", "c", "h", "e", "_", "_">>)

exclude_list == <<"swap", "4913", "backup", "git", "pycache">>

Matches(pat, s) ==
    CASE pat = "swap" -> MatchSwap(s)
      [] pat = "4913" -> Match4913(s)
      [] pat = "backup" -> MatchBackup(s)
      [] pat = "git" -> MatchGit(s)
      [] pat = "pycache" -> MatchPycache(s)

Excluded(path) == \E i \in 1..Len(exclude_list) : Matches(exclude_list[i], path)

\* is_interested that looks up the registered paths before the exclusion patterns.
MutHeadRegisteredFirst(path, regs, rec) ==
    IF path \in regs THEN "true"
    ELSE IF Excluded(path) THEN "false"
    ELSE IF dirname(path) \in regs THEN "true"
    ELSE IF rec THEN "loop"
    ELSE "false"

\* is_interested that walks the ancestors whatever self.recursive is.
MutHeadAlwaysWalk(path, regs, rec) ==
    IF Excluded(path) THEN "false"
    ELSE IF path \in regs THEN "true"
    ELSE IF dirname(path) \in regs THEN "true"
    ELSE "loop"

(***************************************************************************)
(* is_interested, up to the while loop (lines 113-125): "true" or "false"  *)
(* when it returns before the loop, "loop" when it enters the loop with    *)
(* the local `path` already set to the parent directory.                   *)
(***************************************************************************)
IsInterestedHead(path, regs, rec) ==
    IF Excluded(path) THEN "false"
    ELSE IF path \in regs THEN "true"
    ELSE IF dirname(path) \in regs THEN "true"
    ELSE IF rec THEN "loop"
    ELSE "false"

(***************************************************************************)
(* The while loop of lines 126-129 with local `path`: its condition (line  *)
(* 126), whether its body returns True (lines 127-129), and the value of   *)
(* `path` after a pass of the body that does not return: the body assigns  *)
(* only path_.                                                             *)
(***************************************************************************)
WhileCondition(path) == dirname(path) # path

BodyReturns(path, regs) == dirname(path) \in regs

LoopNextPath(path) == path

(***************************************************************************)
(* str.replace(old, new): every non-overlapping occurrence, left to right. *)
(***************************************************************************)
RECURSIVE StrReplace(_, _, _)
StrReplace(s, old, new) ==
    IF Len(s) < Len(old) THEN s
    ELSE IF SubSeq(s, 1, Len(old)) = old
         THEN new \o StrReplace(SubSeq(s, Len(old) + 1, Len(s)), old, new)
         ELSE <<Head(s)>> \o StrReplace(Tail(s), old, new)

Placeholder == <<"%", "f">>

\* lines 98-100: new_command
NewCommand(cmd, file) == [i \in 1..Len(cmd) |-> StrReplace(cmd[i], Placeholder, file)]

(***************************************************************************)
(* The values of the system.                                               *)
(***************************************************************************)
DevNull == <<"/", "d", "e", "v", "/", "n", "u", "l", "l">>
NoFile == <<>>
NoEvent == [kind |-> "none"]
NoChild == [argv |-> <<>>]
NoTime == 0 - 1
Absent == 0 - 1       \* fstat of a file that does not exist; otherwise its mtime
Unset == "unset"      \* a key that process_env does not hold

Kinds == {"created", "modified", "moved", "deleted"}
EventName(kind) ==
    CASE kind = "created" -> "file_created"
      [] kind = "modified" -> "file_modified"
      [] kind = "moved" -> "file_moved"
      [] kind = "deleted" -> "file_deleted"

\* The paths events are delivered for.
dA == Child(Root, nA)
dAA == Child(dA, nA)
EventPaths ==
    {Child(dA, nB), Child(dA, nGit), Child(dAA, nB), Child(Child(dAA, nA), nB)}

\* The targets given on the command line, and which of them are directories.
TargetSets == {{dA}, {Child(dA, nB)}, {dA, Child(dA, nB)}}
isdir(p) == p \in {Root, dA, dAA, Child(dAA, nA)}

Commands ==
    { << <<"e", "%", "f">> >>,
      << <<"e">>, <<"%", "f", "%", "%", "f">>, <<"f", "%">> >> }

\* WHEN_CHANGED_EVENT as inherited from os.environ (line 76).
AmbientEvents == {Unset, "file_modified"}

(***************************************************************************)
(* __init__, lines 80-87: one watch per registered path.                   *)
(***************************************************************************)
Schedule(regs, rec) ==
    {[path |-> p, recursive |-> TRUE] : p \in {q \in regs : isdir(q)}}
    \cup {[path |-> dirname(p), recursive |-> FALSE] : p \in {q \in regs : ~isdir(q)}}

\* The observer delivers events for what lies under a watch.
UnderWatch(p) ==
    \E w \in watches :
        IF w.recursive THEN IsDescendantOf(p, w.path) ELSE IsChildOf(p, w.path)

Events ==
    {[kind |-> k, src_path |-> s, dest_path |-> NoFile, is_directory |-> d] :
        k \in Kinds \ {"moved"}, s \in EventPaths, d \in BOOLEAN}
    \cup {[kind |-> "moved", src_path |-> m[1], dest_path |-> m[2], is_directory |-> d] :
        m \in {x \in EventPaths \X EventPaths : x[1] # x[2]}, d \in BOOLEAN}

Delivered(e) ==
    /\ UnderWatch(e.src_path)
    /\ e.kind = "moved" => UnderWatch(e.dest_path)

\* The state of a constructed WhenChanged whose run() has not been called.
Idle ==
    /\ last_run = 0
    /\ main_pc = "init"
    /\ ev_pc = "idle"
    /\ event = NoEvent
    /\ rc_pc = "none"
    /\ rc_owner = "none"
    /\ thefile = NoFile
    /\ error = "none"
    /\ now = 0
    /\ fstat = Absent
    /\ child = NoChild
    /\ completed = NoTime

Init ==
    /\ paths \in TargetSets
    /\ recursive \in BOOLEAN
    /\ run_once \in BOOLEAN
    /\ run_at_start \in BOOLEAN
    /\ observer_class \in {"InotifyObserver", "PollingObserver"}
    /\ command \in Commands
    /\ watches = Schedule(paths, recursive)
    /\ process_env \in [event : AmbientEvents, file : {NoFile}]
    /\ Idle
    /\ fi_path = <<>>
    /\ fi_pc = "none"
    /\ fi_arg = <<>>
    /\ fi_ret = "none"

(***************************************************************************)
(* How a thread enters and leaves run_command. `ev` is the event of the    *)
(* handler that runs (NoEvent for run()), `env` the process_env the call   *)
(* was made with.                                                          *)
(***************************************************************************)
program == <<last_run, process_env, child, completed>>

Inside(owner, ev) ==
    IF owner = "main"
    THEN main_pc' = "run_at_start" /\ UNCHANGED <<ev_pc, event>>
    ELSE ev_pc' = "run_command" /\ event' = ev /\ UNCHANGED main_pc

Leave ==
    /\ rc_pc' = "none"
    /\ rc_owner' = "none"
    /\ thefile' = NoFile
    /\ fstat' = Absent
    /\ fi_path' = <<>>

\* The call returns to its caller: run() goes on to observer.start() (line 171),
\* a handler returns to the observer.
Return(owner) ==
    /\ IF owner = "main"
       THEN main_pc' = "watching" /\ UNCHANGED <<ev_pc, event>>
       ELSE ev_pc' = "idle" /\ event' = NoEvent /\ UNCHANGED main_pc
    /\ Leave
    /\ error' = error

\* Nothing in the class catches an exception: it ends run() (main catches only
\* KeyboardInterrupt, line 231) or the observer thread that called the handler.
Raise(owner, exc) ==
    /\ IF owner = "main"
       THEN main_pc' = "crashed" /\ UNCHANGED <<ev_pc, event>>
       ELSE ev_pc' = "dead" /\ event' = NoEvent /\ UNCHANGED main_pc
    /\ Leave
    /\ error' = exc

\* Lines 98-105: build the command, set WHEN_CHANGED_FILE, call subprocess.call,
\* which starts the child and blocks, or raises OSError when it cannot start it.
Execute(owner, file, ev, env) ==
    /\ process_env' = [env EXCEPT !.file = file]
    /\ \E started \in BOOLEAN :
        IF started
        THEN /\ child' = [argv |-> NewCommand(command, file),
                          shell |-> (Len(command) = 1),
                          env |-> process_env',
                          started |-> now]
             /\ rc_pc' = "wait"
             /\ rc_owner' = owner
             /\ thefile' = file
             /\ fstat' = fstat
             /\ fi_path' = <<>>
             /\ error' = error
             /\ Inside(owner, ev)
        ELSE /\ child' = child
             /\ Raise(owner, "OSError")
    /\ UNCHANGED <<last_run, completed>>

\* WHEN_CHANGED_FILE set on entry, before the gate
MutRunCommand(owner, file, ev, env) ==
    IF run_once
    THEN /\ rc_pc' = "exists"
         /\ rc_owner' = owner
         /\ thefile' = file
         /\ fstat' \in (IF file = DevNull THEN 0..MaxTime ELSE {Absent} \cup 0..MaxTime)
         /\ fi_path' = <<>>
         /\ error' = error
         /\ Inside(owner, ev)
         /\ process_env' = [env EXCEPT !.file = file]
         /\ UNCHANGED <<last_run, child, completed>>
    ELSE Execute(owner, file, ev, env)

\* Line 89: run_command(file) is entered. With run_once the next thing it does is
\* os.path.exists (line 91) on the file as it is on disk at that moment.
RunCommand(owner, file, ev, env) ==
    IF run_once
    THEN /\ rc_pc' = "exists"
         /\ rc_owner' = owner
         /\ thefile' = file
         /\ fstat' \in (IF file = DevNull THEN 0..MaxTime ELSE {Absent} \cup 0..MaxTime)
         /\ fi_path' = <<>>
         /\ error' = error
         /\ Inside(owner, ev)
         /\ process_env' = env
         /\ UNCHANGED <<last_run, child, completed>>
    ELSE Execute(owner, file, ev, env)

(***************************************************************************)
(* run(), lines 167-171.                                                   *)
(***************************************************************************)
Run ==
    /\ main_pc = "init"
    /\ IF run_at_start
       THEN RunCommand("main", DevNull, NoEvent, process_env)
       ELSE /\ main_pc' = "watching"
            /\ UNCHANGED <<ev_pc, event, fi_path, rc_pc, rc_owner, thefile, error>>
            /\ UNCHANGED <<program, fstat>>
    /\ UNCHANGED <<config, now, filter>>

(***************************************************************************)
(* run_command, lines 89-96: the run-once gate, one step per look at disk. *)
(***************************************************************************)
\* a gate that also holds back a file modified exactly at last_run
MutTooOld(mtime, last) == mtime <= last

\* line 93: the file is older than the last run
TooOld(mtime, last) == mtime < last

\* a gate without the existence check of line 91
MutExists ==
    /\ rc_pc = "exists"
    /\ rc_pc' = "getmtime"
    /\ UNCHANGED <<main_pc, ev_pc, event, fi_path, rc_owner, thefile, error, fstat>>
    /\ UNCHANGED <<config, program, now, filter>>

\* line 91: os.path.exists(thefile)
Exists ==
    /\ rc_pc = "exists"
    /\ IF fstat = Absent
       THEN Return(rc_owner)
       ELSE /\ rc_pc' = "getmtime"
            /\ UNCHANGED <<main_pc, ev_pc, event, fi_path, rc_owner, thefile, error, fstat>>
    /\ UNCHANGED <<config, program, now, filter>>

Getmtime ==
    /\ rc_pc = "getmtime"
    /\ IF fstat = Absent
       THEN Raise(rc_owner, "OSError") /\ UNCHANGED program
       ELSE IF TooOld(fstat, last_run)
       THEN /\ rc_pc' = "getmtime_log"
            /\ UNCHANGED <<main_pc, ev_pc, event, fi_path, rc_owner, thefile, error, fstat>>
            /\ UNCHANGED program
       ELSE Execute(rc_owner, thefile, event, process_env)
    /\ UNCHANGED <<config, now, filter>>

\* line 94: the message of logging.info reads the modification time again
GetmtimeLog ==
    /\ rc_pc = "getmtime_log"
    /\ IF fstat = Absent THEN Raise(rc_owner, "OSError") ELSE Return(rc_owner)
    /\ UNCHANGED <<config, program, now, filter>>

(***************************************************************************)
(* run_command, lines 105-111: the child exits, subprocess.call returns.   *)
(***************************************************************************)
\* last_run taken when the child was started
MutExitStamp(clock, proc) == proc.started

\* The time.time() of line 106, given the clock and the child that has exited.
ExitStamp(clock, proc) == clock

ChildExit ==
    /\ rc_pc = "wait"
    /\ last_run' = ExitStamp(now, child)
    /\ completed' = now
    /\ child' = NoChild
    /\ process_env' = process_env
    /\ IF process_env.event = Unset
       THEN Raise(rc_owner, "KeyError")      \* line 108: get_envvar('event')
       ELSE Return(rc_owner)
    /\ UNCHANGED <<config, now, filter>>

(***************************************************************************)
(* The handlers, lines 133-159.                                            *)
(***************************************************************************)
\* every handler passing src_path, on_moved too
MutHandlerPath(e) == e.src_path

\* The path a handler passes to on_change.
HandlerPath(e) == IF e.kind = "moved" THEN e.dest_path ELSE e.src_path

\* an on_created without the check of the observer class
MutSuppressed(e) == FALSE

\* on_created returns at once under inotify (lines 138-140).
Suppressed(e) == e.kind = "created" /\ observer_class = "InotifyObserver"

\* lines 133-135, for the handler of event e, called with process_env = env
OnChange(e, env) ==
    LET path == HandlerPath(e)
        r == IsInterestedHead(path, paths, recursive)
    IN  CASE r = "true" -> RunCommand("event", path, e, env)
          [] r = "loop" ->
                /\ ev_pc' = "while"
                /\ event' = e
                /\ fi_path' = dirname(path)
                /\ process_env' = env
                /\ UNCHANGED <<main_pc, rc_pc, rc_owner, thefile, error, fstat>>
                /\ UNCHANGED <<last_run, child, completed>>
          [] r = "false" ->
                /\ process_env' = env
                /\ UNCHANGED <<threads, fstat, last_run, child, completed>>

\* handlers without the test of event.is_directory
MutHandlerOfDirectory(e) ==
    /\ main_pc = "watching"
    /\ ev_pc = "idle"
    /\ Delivered(e)
    /\ IF Suppressed(e)
       THEN UNCHANGED <<threads, fstat, program>>
       ELSE OnChange(e, [process_env EXCEPT !.event = EventName(e.kind)])
    /\ UNCHANGED <<config, now, filter>>

\* an observer started before the run_command of run_at_start was called
MutHandler(e) ==
    /\ main_pc \in {"run_at_start", "watching"}
    /\ ev_pc = "idle"
    /\ Delivered(e)
    /\ IF Suppressed(e) \/ e.is_directory
       THEN UNCHANGED <<threads, fstat, program>>
       ELSE OnChange(e, [process_env EXCEPT !.event = EventName(e.kind)])
    /\ UNCHANGED <<config, now, filter>>

\* One handler call by the observer thread, which run() starts at line 171 and
\* which dispatches one event at a time.
Handler(e) ==
    /\ main_pc = "watching"
    /\ ev_pc = "idle"
    /\ Delivered(e)
    /\ IF Suppressed(e) \/ e.is_directory
       THEN UNCHANGED <<threads, fstat, program>>
       ELSE OnChange(e, [process_env EXCEPT !.event = EventName(e.kind)])
    /\ UNCHANGED <<config, now, filter>>

on_created == \E e \in Events : e.kind = "created" /\ Handler(e)
on_modified == \E e \in Events : e.kind = "modified" /\ Handler(e)
on_moved == \E e \in Events : e.kind = "moved" /\ Handler(e)
on_deleted == \E e \in Events : e.kind = "deleted" /\ Handler(e)

\* is_interested of a handler, at the while of line 126
While ==
    /\ ev_pc = "while"
    /\ IF WhileCondition(fi_path)
       THEN /\ ev_pc' = "body"
            /\ UNCHANGED <<main_pc, event, fi_path, rc_pc, rc_owner, thefile, error, fstat>>
       ELSE Return("event")                                \* line 131
    /\ UNCHANGED <<config, program, now, filter>>

\* is_interested of a handler, in the loop body of lines 127-129
Body ==
    /\ ev_pc = "body"
    /\ IF BodyReturns(fi_path, paths)
       THEN RunCommand("event", HandlerPath(event), event, process_env)
       ELSE /\ ev_pc' = "while"
            /\ fi_path' = LoopNextPath(fi_path)
            /\ UNCHANGED <<main_pc, event, rc_pc, rc_owner, thefile, error>>
            /\ UNCHANGED <<fstat, program>>
    /\ UNCHANGED <<config, now, filter>>

(***************************************************************************)
(* run(), lines 172-177: KeyboardInterrupt, observer.stop(), join().       *)
(***************************************************************************)
Interrupt ==
    /\ main_pc = "watching"
    /\ main_pc' = "joining"
    /\ UNCHANGED <<ev_pc, event, fi_path, rc_pc, rc_owner, thefile, error>>
    /\ UNCHANGED <<config, program, now, fstat, filter>>

Join ==
    /\ main_pc = "joining"
    /\ ev_pc \in {"idle", "dead"}
    /\ main_pc' = "stopped"
    /\ ev_pc' = IF ev_pc = "idle" THEN "exited" ELSE ev_pc
    /\ UNCHANGED <<event, fi_path, rc_pc, rc_owner, thefile, error>>
    /\ UNCHANGED <<config, program, now, fstat, filter>>

(***************************************************************************)
(* The environment: the clock, and other processes writing the file that   *)
(* run_command is looking at.                                              *)
(***************************************************************************)
Tick ==
    /\ now < MaxTime
    /\ now' = now + 1
    /\ UNCHANGED <<config, program, threads, fstat, filter>>

InGate == rc_pc \in {"exists", "getmtime", "getmtime_log"} /\ thefile # DevNull

FsDelete ==
    /\ InGate
    /\ fstat # Absent
    /\ fstat' = Absent
    /\ UNCHANGED <<config, program, threads, now, filter>>

FsWrite ==
    /\ InGate
    /\ fstat # now
    /\ fstat' = now
    /\ UNCHANGED <<config, program, threads, now, filter>>

Next ==
    \/ Run
    \/ on_created
    \/ on_modified
    \/ on_moved
    \/ on_deleted
    \/ While
    \/ Body
    \/ Exists
    \/ Getmtime
    \/ GetmtimeLog
    \/ ChildExit
    \/ Interrupt
    \/ Join
    \/ Tick
    \/ FsDelete
    \/ FsWrite

Spec == Init /\ [][Next]_vars

(***************************************************************************)
(* A direct call of is_interested on inputs drawn at the start.            *)
(***************************************************************************)
RegCandidates ==
    {Root, Child(Root, nA), Child(Child(Root, nA), nB), Child(Child(Root, nA), nGit),
     Child(Child(Child(Root, nA), nB), nA)}

RegSets == {S \in SUBSET RegCandidates : Cardinality(S) >= 1 /\ Cardinality(S) <= MaxTargets}

FilterInit ==
    /\ paths \in RegSets
    /\ recursive \in BOOLEAN
    /\ run_once = FALSE
    /\ run_at_start = FALSE
    /\ observer_class = "PollingObserver"
    /\ command = << <<"e", "%", "f">> >>
    /\ watches = Schedule(paths, recursive)
    /\ process_env = [event |-> Unset, file |-> NoFile]
    /\ Idle
    /\ fi_pc = "start"
    /\ fi_arg \in AllPaths
    /\ fi_path = <<>>
    /\ fi_ret = "none"

FilterCall ==
    /\ fi_pc = "start"
    /\ LET r == IsInterestedHead(fi_arg, paths, recursive)
       IN  IF r = "loop"
           THEN /\ fi_pc' = "while"
                /\ fi_path' = dirname(fi_arg)
                /\ fi_ret' = fi_ret
           ELSE /\ fi_pc' = "returned"
                /\ fi_path' = fi_path
                /\ fi_ret' = r
    /\ UNCHANGED <<config, program, now, fstat, fi_arg>>
    /\ UNCHANGED <<main_pc, ev_pc, event, rc_pc, rc_owner, thefile, error>>

\* line 126
FilterWhile ==
    /\ fi_pc = "while"
    /\ IF WhileCondition(fi_path)
       THEN fi_pc' = "body" /\ fi_ret' = fi_ret
       ELSE fi_pc' = "returned" /\ fi_ret' = "false"      \* line 131
    /\ UNCHANGED <<config, program, threads, now, fstat, fi_arg>>

\* lines 127-129
FilterBody ==
    /\ fi_pc = "body"
    /\ IF BodyReturns(fi_path, paths)
       THEN fi_pc' = "returned" /\ fi_ret' = "true" /\ fi_path' = fi_path
       ELSE fi_pc' = "while" /\ fi_ret' = fi_ret /\ fi_path' = LoopNextPath(fi_path)
    /\ UNCHANGED <<config, program, now, fstat, fi_arg>>
    /\ UNCHANGED <<main_pc, ev_pc, event, rc_pc, rc_owner, thefile, error>>

FilterNext == FilterCall \/ FilterWhile \/ FilterBody

FilterSpec == FilterInit /\ [][FilterNext]_vars

\* is_interested is an ordinary synchronous call: the interpreter keeps executing it.
FilterFair == FilterSpec /\ WF_vars(FilterNext)

Returned(v) == fi_pc = "returned" /\ fi_ret = v

\* C1: in recursive mode, for every registered path D and every descendant P of D
\* at any depth that matches no exclusion pattern, is_interested(P) returns True.
C1_RecursiveDescendantInteresting ==
    (/\ recursive
     /\ ~Excluded(fi_arg)
     /\ \E D \in paths : IsDescendantOf(fi_arg, D))
        ~> Returned("true")

\* C2: is_interested is total: every call terminates and returns a boolean, the
\* ancestor walk of recursive mode included.
C2_IsInterestedTerminates ==
    (fi_pc = "start") ~> (fi_pc = "returned" /\ fi_ret \in {"true", "false"})

\* C3: exclusion always wins: a path that matches a pattern of exclude_list is
\* answered False, whatever is registered (the path itself included) and whatever
\* the recursive flag is.
C3_ExclusionWins ==
    (fi_pc # "start" /\ Excluded(fi_arg)) => Returned("false")

C3_Witness ==
    /\ Returned("false")
    /\ Excluded(fi_arg)
    /\ fi_arg \in paths
    /\ recursive

\* P is below D, deeper than an entry of D, and P's parent is not registered.
DeepBelowRegistered(P) ==
    /\ \E D \in paths : IsDescendantOf(P, D) /\ ~IsChildOf(P, D)
    /\ \A D \in paths : ~IsChildOf(P, D)

\* C4 as stated: in non-recursive mode a descendant of a registered directory deeper
\* than an immediate child, whose parent is not registered, is answered False.
C4_Original ==
    (fi_pc # "start" /\ ~recursive /\ DeepBelowRegistered(fi_arg)) => Returned("false")

\* C4 as amended: the same, for a path that is not itself registered.
C4_NonRecursiveDeepNotInteresting ==
    (fi_pc # "start" /\ ~recursive /\ DeepBelowRegistered(fi_arg) /\ fi_arg \notin paths)
        => Returned("false")

C4_Witness ==
    /\ Returned("false")
    /\ ~recursive
    /\ ~Excluded(fi_arg)
    /\ DeepBelowRegistered(fi_arg)
    /\ fi_arg \notin paths

\* C5: with a single file T registered (and nothing else), is_interested(T) is True
\* and is_interested(S) is False for every sibling S of T, in both modes. Read with
\* C3: T and S match no exclusion pattern.
C5_SingleFileTarget ==
    /\ (\E T \in paths : paths = {T} /\ fi_arg = T /\ ~Excluded(T)) ~> Returned("true")
    /\ (\E T \in paths, D \in AllPaths :
            /\ paths = {T}
            /\ IsChildOf(T, D) /\ IsChildOf(fi_arg, D)
            /\ fi_arg # T
            /\ ~Excluded(fi_arg))
        ~> Returned("false")

\* C6: a path whose parent directory is a registered path and that matches no
\* exclusion pattern is answered True, in both modes.
C6_ChildOfRegisteredInteresting ==
    (/\ fi_pc # "start"
     /\ ~Excluded(fi_arg)
     /\ \E D \in paths : IsChildOf(fi_arg, D))
        => Returned("true")

C6_Witness ==
    /\ Returned("true")
    /\ fi_arg \notin paths
    /\ \E D \in paths : IsChildOf(fi_arg, D)
    /\ ~recursive

(***************************************************************************)
(* Claims about run_command and the handlers.                              *)
(***************************************************************************)
\* The gate let the call through: the child runs, or subprocess.call raised.
GatePassed ==
    \/ rc_pc' = "wait" /\ child' # NoChild
    \/ rc_pc' = "none" /\ error' = "OSError" /\ child' = child

\* The gate ended the call, or is about to: no child, no exception from the spawn.
GateHeld ==
    /\ rc_pc' \in {"none", "getmtime_log"}
    /\ error' = "none"
    /\ UNCHANGED <<program>>

\* C7: with run_once false run_command always executes the command; with run_once
\* true it does not execute it when the file does not exist or when its mtime is
\* strictly less than last_run, and executes it otherwise (mtime = last_run too).
C7_RunGate ==
    /\ [](~run_once => rc_pc \in {"none", "wait"})
    /\ [][(rc_pc = "exists" /\ rc_pc' # "exists" /\ fstat = Absent) => GateHeld]_vars
    /\ [][(rc_pc = "getmtime" /\ rc_pc' # "getmtime" /\ fstat # Absent /\ fstat < last_run)
            => GateHeld]_vars
    /\ [][(rc_pc = "getmtime" /\ rc_pc' # "getmtime" /\ fstat # Absent /\ fstat >= last_run)
            => GatePassed]_vars

C7_Witness ==
    /\ run_once
    /\ rc_owner = "event"
    /\ rc_pc = "wait"
    /\ last_run > 0
    /\ fstat = last_run

\* C8: in run-once mode, once an execution has completed, an event for a file whose
\* last modification precedes that completion causes no execution: whenever a
\* child runs after a completion, the file is not older than that completion.
C8_NoRerunForOldChange ==
    (run_once /\ rc_pc = "wait" /\ completed # NoTime)
        => (fstat # Absent /\ fstat >= completed)

C8_Witness ==
    /\ run_once
    /\ rc_owner = "event"
    /\ rc_pc = "getmtime_log"
    /\ completed # NoTime
    /\ fstat # Absent
    /\ fstat < completed

\* The substitution of C9, position by position: an occurrence of %f starts at i.
Occurs(tok, i) == i < Len(tok) /\ tok[i] = "%" /\ tok[i + 1] = "f"

Piece(tok, i, P) ==
    IF Occurs(tok, i) THEN P
    ELSE IF i > 1 /\ Occurs(tok, i - 1) THEN <<>>
    ELSE <<tok[i]>>

RECURSIVE Pieces(_, _, _)
Pieces(tok, n, P) == IF n = 0 THEN <<>> ELSE Pieces(tok, n - 1, P) \o Piece(tok, n, P)

Substituted(cmd, P) == [i \in 1..Len(cmd) |-> Pieces(cmd[i], Len(cmd[i]), P)]

TriggerPath(e) == IF e.kind = "moved" THEN e.dest_path ELSE e.src_path

\* C9: every child started for an event of kind K on trigger path P runs the command
\* template with every %f of every token replaced by P, with WHEN_CHANGED_FILE = P
\* and WHEN_CHANGED_EVENT = file_K, whatever events came before.
C9_ChildInvocation ==
    (rc_pc = "wait" /\ rc_owner = "event")
        => /\ child.argv = Substituted(command, TriggerPath(event))
           /\ child.env.file = TriggerPath(event)
           /\ child.env.event = EventName(event.kind)

C9_Witness ==
    /\ rc_pc = "wait"
    /\ rc_owner = "event"
    /\ event.kind = "moved"
    /\ Len(command) > 1
    /\ completed # NoTime
    /\ child.argv # command
    /\ child.argv = Substituted(command, event.dest_path)

\* C10: with run_at_start, run() executes the command once on /dev/null before the
\* observer is started, and then starts the observer and is Watching.
C10_RunAtStart ==
    /\ main_pc = "run_at_start" => (thefile = DevNull /\ ev_pc = "idle" /\ event = NoEvent)
    /\ (run_at_start /\ completed # NoTime) => main_pc \in {"watching", "joining", "stopped"}

(***************************************************************************)
(* Claims about failures, shutdown and overlap.                            *)
(***************************************************************************)
\* A step in which subprocess.call (line 105) raised: the call was past the gate
\* (not at a getmtime of a missing file) and ended with OSError.
SpawnFailure ==
    /\ error = "none"
    /\ error' = "OSError"
    /\ rc_pc # "getmtime_log"
    /\ rc_pc = "getmtime" => fstat # Absent

\* C11: when the child of an event cannot be spawned the failure is caught: the
\* handler returns, the observer thread is idle again and takes the next event.
C11_SpawnFailureCaught ==
    [][(SpawnFailure /\ main_pc \in {"watching", "joining"}) => ev_pc' = "idle"]_vars

(***************************************************************************)
(* Scheduling: each thread that can take a step of its own code takes it   *)
(* (the interpreter keeps running run(), a handler and join()), and a      *)
(* started child exits. Events, the interrupt, the clock and other         *)
(* processes' writes are not forced to happen.                             *)
(***************************************************************************)
HandlerStep == While \/ Body \/ Exists \/ Getmtime \/ GetmtimeLog

FairSpec ==
    /\ Spec
    /\ WF_vars(Run)
    /\ WF_vars(HandlerStep)
    /\ WF_vars(ChildExit)
    /\ WF_vars(Join)

\* C12: after the interrupt arrives while watching, run() eventually reaches
\* Stopped (observer stopped and joined), whatever the observer thread was doing
\* (idle, inside is_interested, or waiting for a child that exits).
C12_InterruptStops ==
    (main_pc = "joining") ~> (main_pc = "stopped")

\* The threads that can be inside run_command: run() before observer.start(), or
\* the observer thread in a handler.
InMain == rc_owner = "main" /\ main_pc = "run_at_start" /\ ev_pc = "idle"
InHandler == rc_owner = "event" /\ ev_pc = "run_command" /\ main_pc \in {"watching", "joining"}

\* C13: at most one execution is in flight: a child exists only while exactly one
\* thread waits for it, no event is being handled until run() is past the
\* run-at-start execution, and a child or a handler starts only when no child and
\* no handler is in flight.
C13_OneExecutionInFlight ==
    /\ [](/\ (child # NoChild) <=> (rc_pc = "wait")
          /\ (rc_pc # "none") => (InMain \/ InHandler)
          /\ (main_pc \in {"init", "run_at_start", "crashed"})
                => (ev_pc = "idle" /\ event = NoEvent))
    /\ [][(child' # child /\ child' # NoChild) => child = NoChild]_vars
    /\ [][(event' # event /\ event' # NoEvent) => (event = NoEvent /\ child = NoChild)]_vars
    /\ [][(rc_pc = "wait" /\ rc_pc' = "wait") => (child' = child /\ event' = event)]_vars

C13_Witness ==
    /\ run_at_start
    /\ completed # NoTime
    /\ InHandler
    /\ rc_pc = "wait"
    /\ main_pc = "joining"

(***************************************************************************)
(* Claims about registration.                                              *)
(***************************************************************************)
\* C14: a target that is a directory gets a subscription on itself that is
\* recursive exactly when the recursive option is set; a target that is not a
\* directory gets a non-recursive subscription on its parent directory.
C14_Subscriptions ==
    \A p \in paths :
        IF isdir(p)
        THEN [path |-> p, recursive |-> recursive] \in watches
        ELSE [path |-> dirname(p), recursive |-> FALSE] \in watches

(***************************************************************************)
(* Claims about what events change.                                        *)
(***************************************************************************)
\* C15: last_run changes only in the step in which a started child exits, where it
\* becomes the time of the exit (not of the start); no filtered or gated event
\* changes it, and it never decreases.
C15_LastRunAtCompletion ==
    /\ [][last_run' # last_run
            => /\ rc_pc = "wait" /\ rc_pc' = "none"
               /\ child # NoChild /\ child' = NoChild
               /\ last_run' = now]_vars
    /\ [][last_run' >= last_run]_vars

C15_Witness ==
    /\ rc_pc = "wait"
    /\ last_run > 0
    /\ last_run = completed
    /\ child.started > last_run

\* The handler of e runs and is_interested answers False at once.
FilteredOut(e) ==
    /\ Handler(e)
    /\ ~e.is_directory
    /\ ~Suppressed(e)
    /\ IsInterestedHead(HandlerPath(e), paths, recursive) = "false"

\* C16 as stated: an event that is_interested filters out leaves last_run,
\* WHEN_CHANGED_EVENT and WHEN_CHANGED_FILE unchanged.
C16_Original ==
    [][\A e \in Events : FilteredOut(e) => UNCHANGED <<last_run, process_env>>]_vars

\* C16 as amended: last_run and WHEN_CHANGED_FILE change only in a step that starts
\* a child, fails to start one, or sees one exit; so an event that is filtered out
\* or held back by the gate leaves both unchanged.
C16_UntriggeredFrame ==
    [][(rc_pc # "wait" /\ rc_pc' # "wait" /\ ~SpawnFailure)
            => (last_run' = last_run /\ process_env'.file = process_env.file)]_vars

C16_Witness ==
    /\ rc_pc = "getmtime_log"
    /\ rc_owner = "event"
    /\ event.kind = "moved"
    /\ process_env.event = "file_moved"
    /\ process_env.file # NoFile
    /\ process_env.file # thefile

(***************************************************************************)
(* Claims about single kinds of event.                                     *)
(***************************************************************************)
\* run_command(e.src_path) is called for the created event e: in run-once mode the
\* gate is entered, otherwise the child is started (or its spawn raises), with
\* WHEN_CHANGED_EVENT = file_created.
CreatedTriggers(e) ==
    /\ process_env'.event = "file_created"
    /\ IF run_once
       THEN rc_pc' = "exists" /\ rc_owner' = "event" /\ thefile' = e.src_path /\ event' = e
       ELSE \/ /\ rc_pc' = "wait" /\ rc_owner' = "event" /\ event' = e
               /\ child'.argv = NewCommand(command, e.src_path)
               /\ child'.env.event = "file_created"
            \/ SpawnFailure

C18_GateNeverRaises ==
    [][(/\ rc_pc \in {"exists", "getmtime", "getmtime_log"}
        /\ rc_pc' # rc_pc
        /\ ~SpawnFailure)
            => (error' = "none" /\ main_pc' # "crashed" /\ ev_pc' # "dead")]_vars

\* C19: an event with is_directory set never starts a run and changes nothing,
\* whatever its kind and path: its handler leaves every variable as it was, so no
\* directory event is ever being handled and no child ever runs for one.
C19_DirectoryEventsIgnored ==
    /\ [](event = NoEvent \/ ~event.is_directory)
    /\ [][\A e \in Events : (e.is_directory /\ Handler(e)) => UNCHANGED vars]_vars

C19_Witness ==
    /\ main_pc = "watching"
    /\ ev_pc = "idle"
    /\ completed # NoTime
    /\ \A k \in Kinds : \E e \in Events :
            /\ e.kind = k
            /\ e.is_directory
            /\ Delivered(e)
            /\ IsInterestedHead(HandlerPath(e), paths, recursive) = "true"

\* run_command(e.src_path) executes for the deleted event e: the child is started
\* with WHEN_CHANGED_EVENT = file_deleted, or its spawn raises.
DeletedExecutes(e) ==
    \/ /\ rc_pc' = "wait" /\ rc_owner' = "event" /\ event' = e
       /\ child'.argv = NewCommand(command, e.src_path)
       /\ child'.env.event = "file_deleted"
       /\ child'.env.file = e.src_path
    \/ SpawnFailure

\* C20: in run-once mode a deleted event whose file does not exist when line 91
\* looks for it ends without an execution and without an error; without run-once
\* a deleted event on a path is_interested accepts executes the command (at once
\* or after the ancestor walk), although the file is gone.
C20_DeletedEvent ==
    /\ [][(/\ run_once /\ rc_pc = "exists" /\ rc_owner = "event"
           /\ event.kind = "deleted" /\ fstat = Absent
           /\ rc_pc' # "exists")
                => (/\ rc_pc' = "none" /\ ev_pc' = "idle" /\ error' = "none"
                    /\ child' = NoChild
                    /\ UNCHANGED program)]_vars
    /\ [][\A e \in Events :
            (/\ ~run_once /\ e.kind = "deleted" /\ ~e.is_directory
             /\ IsInterestedHead(e.src_path, paths, recursive) = "true"
             /\ Handler(e))
                => DeletedExecutes(e)]_vars
    /\ [][(/\ ~run_once /\ ev_pc = "body" /\ event.kind = "deleted"
           /\ BodyReturns(fi_path, paths)
           /\ ev_pc' # "body")
                => DeletedExecutes(event)]_vars

C20_Witness ==
    /\ run_once
    /\ rc_owner = "event"
    /\ rc_pc = "exists"
    /\ event.kind = "deleted"
    /\ process_env.event = "file_deleted"
    /\ fstat = Absent
    /\ process_env.file = event.src_path

====
